---- MODULE Spec2Model ----
(***************************************************************************)
(* Model of the fiemap crate (src/fiemap/src/lib.rs): the Fiemap reader,   *)
(* its two constructors, the paged FS_IOC_FIEMAP query (get_extents) and   *)
(* the Iterator::next pull operation.                                      *)
(*                                                                         *)
(* u64 values are scaled to Width bits (arithmetic modulo 2^Width); the    *)
(* batch capacity PAGESIZE keeps the value of the source.  The kernel is   *)
(* the environment: for a query at fm_start it answers EINTR, a fatal      *)
(* errno, an empty mapping, or the next up-to-fm_extent_count extents of   *)
(* the file that lie at or after fm_start.  A failed ioctl leaves the      *)
(* request buffer untouched.                                               *)
(***************************************************************************)
EXTENDS Integers, Sequences, FiniteSets, TLC

\* ------------------------------------------------------------------ bounds
Width == 7
MaxExtents == 17
MaxLen == 2
MaxGap == 1
MaxIntr == 1

MaxWalk == 2
MaxCount == 3
MaxGt == 2

U64Modulus == 2 ^ Width
U64MAX == U64Modulus - 1
MaxCalls == MaxExtents + 4

\* ------------------------------------------------------- program constants
PAGESIZE == 8
LAST == 1
UNWRITTEN == 2048

\* ------------------------------------------------------------ extent data
FiemapExtent(l, p, n, f) ==
    [fe_logical |-> l, fe_physical |-> p, fe_length |-> n, fe_flags |-> f]

\* FiemapExtent::new(): the zeroed slot
FiemapExtentNew == FiemapExtent(0, 0, 0, 0)

\* FiemapExtentFlags::contains(flag) for a single-bit flag
Contains(flags, flag) == (flags \div flag) % 2 = 1

\* ------------------------------------------------ files (the kernel's data)
\* Physical offsets are unrelated to the logical ones.
PhysOf(l) == (3 * l + 5) % U64Modulus

\* A regular extent map: n extents of length len (> 0), separated by holes of
\* length gap, every second one UNWRITTEN, the final one flagged LAST when
\* flagLast.
RegularFile(n, len, gap, flagLast) ==
    [i \in 1..n |->
        FiemapExtent((i - 1) * (len + gap) + gap,
                     PhysOf((i - 1) * (len + gap) + gap),
                     len,
                     (IF i = n /\ flagLast THEN LAST ELSE 0)
                       + (IF i % 2 = 0 THEN UNWRITTEN ELSE 0))]

RegularFiles ==
    { RegularFile(n, len, gap, fl) :
        n \in 0..MaxExtents, len \in 1..MaxLen, gap \in 0..MaxGap, fl \in BOOLEAN }

FlaggedFiles ==
    { RegularFile(n, len, gap, TRUE) :
        n \in 0..MaxExtents, len \in 1..MaxLen, gap \in 0..MaxGap }

\* Extent maps a misbehaving filesystem could report.
\* PAGESIZE + 1 zero-length extents at offset 0, the final one LAST.
ZeroLenFile ==
    [i \in 1..(PAGESIZE + 1) |->
        FiemapExtent(0, PhysOf(i), 0, IF i = PAGESIZE + 1 THEN LAST ELSE 0)]

\* One extent that ends past the largest u64, not flagged LAST.
OverflowFile == << FiemapExtent(U64MAX, PhysOf(1), 1, 0) >>

\* An extent that ends exactly at 2^64 followed by nothing, not flagged LAST,
\* after two ordinary extents.
OverflowTailFile ==
    << FiemapExtent(0, PhysOf(0), 1, 0),
       FiemapExtent(1, PhysOf(1), 1, UNWRITTEN),
       FiemapExtent(U64MAX - 1, PhysOf(2), 2, 0) >>

\* LAST on the final slot of the first batch although two extents follow.
EarlyLastFile ==
    [i \in 1..(PAGESIZE + 2) |->
        FiemapExtent(i - 1, PhysOf(i - 1), 1, IF i = PAGESIZE THEN LAST ELSE 0)]

\* LAST in the middle of the first batch, and on the final extent.
MidLastFile ==
    [i \in 1..(PAGESIZE + 2) |->
        FiemapExtent(i - 1, PhysOf(i - 1), 1,
                     IF i = 3 \/ i = PAGESIZE + 2 THEN LAST ELSE 0)]

\* A full batch of ordinary extents followed by one extent that ends past the
\* largest u64, not flagged LAST.
OverflowLaterFile ==
    [i \in 1..(PAGESIZE + 1) |->
        IF i <= PAGESIZE
        THEN FiemapExtent(i - 1, PhysOf(i - 1), 1, 0)
        ELSE FiemapExtent(U64MAX, PhysOf(i), 1, 0)]

OddFiles ==
    { ZeroLenFile, OverflowFile, OverflowTailFile, OverflowLaterFile,
      EarlyLastFile, MidLastFile }

Files == RegularFiles \cup OddFiles

\* ------------------------------------------------------------------ kernel
RECURSIVE SelectFrom(_, _, _)
\* the extents of f from index i on whose fe_logical is at or after start
SelectFrom(f, i, start) ==
    IF i > Len(f) THEN << >>
    ELSE IF f[i].fe_logical >= start
         THEN << f[i] >> \o SelectFrom(f, i + 1, start)
         ELSE SelectFrom(f, i + 1, start)

Take(s, n) == IF Len(s) <= n THEN s ELSE SubSeq(s, 1, n)

\* FS_IOC_FIEMAP on success: the next up-to-count extents at or after start
KernelBatch(f, start, count) == Take(SelectFrom(f, 1, start), count)

\* ------------------------------------------------------------------- state
VARIABLES
    pc,                \* "start" | "idle" | "get_extents" | "open_failed" | "panicked" | "dropped"
    file,              \* the extent map the kernel reports for the descriptor
    overflow_checks,   \* build profile: TRUE when u64 `+` panics on overflow
    fd_open,           \* the descriptor number Fiemap::fd refers to an open file
    fd_closes,         \* close() calls made on that descriptor number
    ctor,              \* "none" | "new" | "new_from_path": how the reader was made
    cur_idx, size, ended,                                   \* struct Fiemap
    fm_start, fm_length, fm_flags, fm_mapped_extents,       \* struct C_fiemap
    fm_extent_count, fm_extents,
    yielded,           \* the Some(..) items returned by next so far
    lastRet,           \* "Ok" | "Err" | "None": what the last finished next returned
    calls,             \* calls to next so far
    log,               \* the completed (not interrupted) ioctl calls: outcome, fm_start,
                       \* extents mapped, and the interrupted calls up to then
    intr,              \* the interrupted ioctl calls so far
    last_attempt,      \* the reader as the last ioctl call saw it, and its outcome
    tool,              \* "none" | "fraghist" | "fragmorethan": the program that runs
    walk,              \* what WalkDir yields for the directory, entry by entry
    gt,                \* fragmorethan's threshold argument
    next_entry,        \* index in walk of the entry the for loop of process takes next
    stdout, stderr,    \* the lines printed so far
    histogram,         \* the counts added to fraghist's Histogram so far
    cli_pc             \* "walking" | "done": process is in its loop, or has returned

reader == << cur_idx, size, ended >>
request == << fm_start, fm_length, fm_flags, fm_mapped_extents, fm_extent_count, fm_extents >>
descriptor == << fd_open, fd_closes, ctor >>
history == << yielded, lastRet, calls, log, intr, last_attempt >>
core == << pc, file, overflow_checks, descriptor, reader, request, history >>
cli == << tool, walk, gt, next_entry, stdout, stderr, histogram, cli_pc >>
vars == << core, cli >>

NoAttempt == [rc |-> "none"]

\* no reader yet, for the extent map f and the build profile oc
NoReader(f, oc) ==
    /\ pc = "start"
    /\ file = f
    /\ overflow_checks = oc
    /\ fd_open = FALSE
    /\ fd_closes = 0
    /\ ctor = "none"
    /\ cur_idx = -1 /\ size = -1 /\ ended = FALSE
    /\ fm_start = -1 /\ fm_length = -1 /\ fm_flags = -1
    /\ fm_mapped_extents = -1 /\ fm_extent_count = -1
    /\ fm_extents = << >>
    /\ yielded = << >>
    /\ lastRet = "none"
    /\ calls = 0
    /\ log = << >>
    /\ intr = 0
    /\ last_attempt = NoAttempt

\* no command-line tool runs
NoTool ==
    /\ tool = "none"
    /\ walk = << >>
    /\ gt = 0
    /\ next_entry = 1
    /\ stdout = << >>
    /\ stderr = << >>
    /\ histogram = << >>
    /\ cli_pc = "done"

Init ==
    /\ \E f \in Files, oc \in BOOLEAN : NoReader(f, oc)
    /\ NoTool

\* ------------------------------------------------------------ construction
\* a request built with fm_start and fm_length swapped
C_fiemapNewSwapped ==
    /\ fm_start' = U64MAX
    /\ fm_length' = 0
    /\ fm_flags' = 0
    /\ fm_mapped_extents' = 0
    /\ fm_extent_count' = PAGESIZE
    /\ fm_extents' = [i \in 0..(PAGESIZE - 1) |-> FiemapExtentNew]

\* C_fiemap::new()
C_fiemapNew ==
    /\ fm_start' = 0
    /\ fm_length' = U64MAX
    /\ fm_flags' = 0
    /\ fm_mapped_extents' = 0
    /\ fm_extent_count' = PAGESIZE
    /\ fm_extents' = [i \in 0..(PAGESIZE - 1) |-> FiemapExtentNew]

\* The descriptor when Fiemap::new(fd) returns.  `fd` is taken by value and
\* only as_raw_fd() is called on it, so it is dropped at the end of new: an
\* owned File closes the descriptor there, while a RawFd (a plain integer)
\* closes nothing.  _file = File::from_raw_fd(raw_fd) keeps the number.
ClosedByArgument(arg) == arg = "File"

\* Fiemap::new(fd), called with an open descriptor
FiemapNew(arg) ==
    /\ C_fiemapNew
    /\ cur_idx' = 0
    /\ size' = 0
    /\ ended' = FALSE
    /\ fd_open' = ~ClosedByArgument(arg)
    /\ fd_closes' = IF ClosedByArgument(arg) THEN fd_closes + 1 ELSE fd_closes
    /\ pc' = "idle"
    /\ UNCHANGED << file, overflow_checks, history >>

\* Fiemap::new called by the user with a handle the user opened
New ==
    /\ pc = "start"
    /\ \E arg \in {"RawFd", "File"} : FiemapNew(arg)
    /\ ctor' = "new"
    /\ UNCHANGED cli

\* Fiemap::new_from_path: File::open(filepath)? and then Self::new(file)
NewFromPath ==
    /\ pc = "start"
    /\ FiemapNew("File")
    /\ ctor' = "new_from_path"
    /\ UNCHANGED cli

\* Fiemap::new_from_path when File::open fails: the `?` returns the error
NewFromPathOpenFails ==
    /\ pc = "start"
    /\ pc' = "open_failed"
    /\ UNCHANGED << file, overflow_checks, descriptor, reader, request, history >>
    /\ UNCHANGED cli

\* The reader goes out of scope: _file is dropped, which closes its descriptor.
Drop ==
    /\ pc = "idle"
    /\ pc' = "dropped"
    /\ fd_open' = FALSE
    /\ fd_closes' = fd_closes + 1
    /\ UNCHANGED << file, overflow_checks, ctor, reader, request, history >>
    /\ UNCHANGED cli

\* -------------------------------------------------------------- get_extents
\* a resume offset that leaves out the length of the last extent
ResumeOffsetLogicalOnly(last) == last.fe_logical

\* lib.rs:65  last.fe_logical + last.fe_length, before any wrapping
ResumeOffset(last) == last.fe_logical + last.fe_length

\* an index into fm_extents: [FiemapExtent; PAGESIZE]
InBounds(idx) == idx \in 0..(PAGESIZE - 1)

\* lib.rs:63-66 panics: slot index out of bounds, or `+` overflows in a build
\* with overflow checks
GetExtentsPanics ==
    /\ size # 0
    /\ \/ ~InBounds(size - 1)
       \/ /\ overflow_checks
          /\ ResumeOffset(fm_extents[size - 1]) >= U64Modulus

\* a query that never moves fm_start
StartForQueryStale == fm_start

\* lib.rs:63-66  the fm_start the ioctl is called with
StartForQuery ==
    IF size # 0
    THEN ResumeOffset(fm_extents[size - 1]) % U64Modulus
    ELSE fm_start

\* an end-of-data test that looks at the LAST flag alone
MarksEndedOnlyLast(mapped, extents) ==
    /\ mapped # 0
    /\ Contains(extents[mapped - 1].fe_flags, LAST)

\* an end-of-data test that looks at the returned count alone
MarksEndedOnlyEmpty(mapped, extents) == mapped = 0

\* an end-of-data test that accepts the LAST flag on any filled slot
MarksEndedAnyLast(mapped, extents) ==
    \/ mapped = 0
    \/ \E i \in 0..(mapped - 1) : Contains(extents[i].fe_flags, LAST)

\* lib.rs:74-78  the condition under which a successful query ends the sequence
MarksEnded(mapped, extents) ==
    \/ mapped = 0
    \/ Contains(extents[mapped - 1].fe_flags, LAST)

\* the kernel's copy-out: the first Len(batch) slots are overwritten
Filled(extents, batch) ==
    [i \in 0..(PAGESIZE - 1) |-> IF i < Len(batch) THEN batch[i + 1] ELSE extents[i]]

\* the successful answers the kernel may give to the query: the extents of the
\* file at or after fm_start, or nothing (a zero-extent response)
KernelAnswers(start) == { KernelBatch(file, start, fm_extent_count), << >> }

\* the errnos a failing ioctl may report: a closed descriptor gives EBADF
Errnos ==
    IF fd_open
    THEN {"EIO"} \cup (IF intr < MaxIntr THEN {"EINTR"} ELSE {})
    ELSE {"EBADF"}

\* an error test that retries nothing
IsInterruptedNever(errno) == FALSE

\* lib.rs:95  e.kind() == ErrorKind::Interrupted
IsInterrupted(errno) == errno = "EINTR"

Attempt(rc, start) ==
    [rc |-> rc, cur_idx |-> cur_idx, size |-> size, ended |-> ended,
     fm_start |-> start, fm_extents |-> fm_extents]

OkItem(e) == [kind |-> "Ok", ext |-> e]
ErrItem(errno) == [kind |-> "Err", errno |-> errno]

\* a fatal error that leaves the exhausted flag alone
EndedAfterErrorUnset == ended

\* lib.rs:98  the exhausted flag after a fatal error
EndedAfterError == TRUE

\* a next that goes on to the slot at cur_idx after an empty query
ReturnsNoneNever(sz) == FALSE

\* lib.rs:102  next returns None after a successful query
ReturnsNone(sz) == sz = 0

\* get_extents panics (lib.rs:64-65); the panic unwinds out of next
GetExtentsPanic ==
    /\ pc = "get_extents"
    /\ GetExtentsPanics
    /\ pc' = "panicked"
    /\ UNCHANGED << file, overflow_checks, descriptor, reader, request, history >>
    /\ UNCHANGED cli

\* get_extents returns Err(e) with e Interrupted: the while loop of next
\* continues (lib.rs:94-96)
GetExtentsInterrupted ==
    /\ pc = "get_extents"
    /\ ~GetExtentsPanics
    /\ \E errno \in Errnos :
        /\ IsInterrupted(errno)
        /\ last_attempt' = Attempt(errno, StartForQuery)
    /\ fm_start' = StartForQuery
    /\ intr' = intr + 1
    /\ UNCHANGED << pc, file, overflow_checks, descriptor, reader,
                    fm_length, fm_flags, fm_mapped_extents, fm_extent_count, fm_extents,
                    yielded, lastRet, calls, log >>
    /\ UNCHANGED cli

\* get_extents returns Err(e) with another e: next sets ended and returns
\* Some(Err(e)) (lib.rs:98-99)
GetExtentsFailed ==
    /\ pc = "get_extents"
    /\ ~GetExtentsPanics
    /\ \E errno \in Errnos :
        /\ ~IsInterrupted(errno)
        /\ yielded' = Append(yielded, ErrItem(errno))
        /\ log' = Append(log, [rc |-> errno, start |-> StartForQuery, n |-> 0,
                                intr |-> intr])
        /\ last_attempt' = Attempt(errno, StartForQuery)
    /\ fm_start' = StartForQuery
    /\ ended' = EndedAfterError
    /\ lastRet' = "Err"
    /\ pc' = "idle"
    /\ UNCHANGED << file, overflow_checks, descriptor, cur_idx, size,
                    fm_length, fm_flags, fm_mapped_extents, fm_extent_count, fm_extents,
                    calls, intr >>
    /\ UNCHANGED cli

\* get_extents returns Ok(()) (lib.rs:72-81) and next finishes (lib.rs:102-110)
GetExtentsOk ==
    /\ pc = "get_extents"
    /\ ~GetExtentsPanics
    /\ fd_open
    /\ \E batch \in KernelAnswers(StartForQuery) :
        /\ fm_start' = StartForQuery
        /\ fm_extents' = Filled(fm_extents, batch)
        /\ fm_mapped_extents' = Len(batch)
        /\ size' = Len(batch)
        /\ ended' = (ended \/ MarksEnded(Len(batch), fm_extents'))
        /\ log' = Append(log, [rc |-> "ok", start |-> StartForQuery, n |-> Len(batch),
                                intr |-> intr])
        /\ IF ReturnsNone(Len(batch))
           THEN /\ cur_idx' = 0
                /\ lastRet' = "None"
                /\ yielded' = yielded
           ELSE /\ cur_idx' = 1
                /\ lastRet' = "Ok"
                /\ yielded' = Append(yielded, OkItem(fm_extents'[0]))
    /\ last_attempt' = Attempt("ok", StartForQuery)
    /\ pc' = "idle"
    /\ UNCHANGED << file, overflow_checks, descriptor,
                    fm_length, fm_flags, fm_extent_count, calls, intr >>
    /\ UNCHANGED cli

\* --------------------------------------------------------------------- next
\* a drained test that is off by one the other way: the last slot is skipped
DrainedBeforeLast == cur_idx + 1 >= size

\* a drained test that lets the exhausted flag win over the unread slots
DrainedOrEnded == cur_idx >= size \/ ended

\* a drained test that is off by one: the slot at index size is still read
DrainedPastEnd == cur_idx > size

\* lib.rs:89  the buffer is drained
Drained == cur_idx >= size

\* lib.rs:89-92  next returns None without a query
NextNone ==
    /\ pc = "idle"
    /\ calls < MaxCalls
    /\ Drained
    /\ ended
    /\ lastRet' = "None"
    /\ calls' = calls + 1
    /\ UNCHANGED << pc, file, overflow_checks, descriptor, reader, request,
                    yielded, log, intr, last_attempt >>
    /\ UNCHANGED cli

\* lib.rs:89-94  next enters the query loop
NextQuery ==
    /\ pc = "idle"
    /\ calls < MaxCalls
    /\ Drained
    /\ ~ended
    /\ pc' = "get_extents"
    /\ calls' = calls + 1
    /\ UNCHANGED << file, overflow_checks, descriptor, reader, request,
                    yielded, lastRet, log, intr, last_attempt >>
    /\ UNCHANGED cli

\* lib.rs:108-110  next returns the slot at cur_idx
NextDrain ==
    /\ pc = "idle"
    /\ calls < MaxCalls
    /\ ~Drained
    /\ IF InBounds(cur_idx)
       THEN /\ yielded' = Append(yielded, OkItem(fm_extents[cur_idx]))
            /\ cur_idx' = cur_idx + 1
            /\ lastRet' = "Ok"
            /\ calls' = calls + 1
            /\ pc' = "idle"
       ELSE /\ pc' = "panicked"
            /\ UNCHANGED << cur_idx, yielded, lastRet, calls >>
    /\ UNCHANGED << file, overflow_checks, descriptor, size, ended, request,
                    log, intr, last_attempt >>
    /\ UNCHANGED cli

Next ==
    \/ New
    \/ NewFromPath
    \/ NewFromPathOpenFails
    \/ Drop
    \/ NextNone
    \/ NextQuery
    \/ NextDrain
    \/ GetExtentsPanic
    \/ GetExtentsInterrupted
    \/ GetExtentsFailed
    \/ GetExtentsOk

Spec == Init /\ [][Next]_vars

\* The reader pulled again and again and never dropped: every step that can be
\* taken is eventually taken, and the kernel stops answering EINTR (Errnos).
NextLive ==
    \/ New
    \/ NewFromPath
    \/ NewFromPathOpenFails
    \/ NextNone
    \/ NextQuery
    \/ NextDrain
    \/ GetExtentsPanic
    \/ GetExtentsInterrupted
    \/ GetExtentsFailed
    \/ GetExtentsOk

LiveSpec == Init /\ [][NextLive]_vars /\ WF_vars(NextLive)

\* ------------------------------------------------- fraghist and fragmorethan
\* What the tools see of a directory walk.  An entry of the WalkDir iterator
\* is an error of the walk itself, or a DirEntry that is a regular file or
\* not; a regular file either fails to open (fiemap(path) returns Err) or
\* gives a reader whose items are some Ok records, ended by None or by one
\* Err.  The path of the entry at index j of the walk is j; 0 stands for the
\* directory the walk started from.
OkRun(k) == [i \in 1..k |-> "Ok"]

ItemSeqs == { OkRun(k) : k \in 0..MaxCount } \cup { OkRun(k) \o << "Err" >> : k \in 0..MaxCount }

WalkError == [kind |-> "walk_err", opens |-> FALSE, items |-> << >>]
NotAFile == [kind |-> "dir", opens |-> FALSE, items |-> << >>]
UnopenableFile == [kind |-> "file", opens |-> FALSE, items |-> << >>]
OpenedFile(items) == [kind |-> "file", opens |-> TRUE, items |-> items]

Entries ==
    { WalkError, NotAFile, UnopenableFile } \cup { OpenedFile(it) : it \in ItemSeqs }

Walks == UNION { [1..n -> Entries] : n \in 0..MaxWalk }

Ok(v) == [ok |-> TRUE, value |-> v]
Err(e) == [ok |-> FALSE, error |-> e]

RECURSIVE CountItems(_, _, _)
\* for fe in fiemap(..)? { fe?; count += 1; } from item i on
CountItems(items, i, count) ==
    IF i > Len(items) THEN Ok(count)
    ELSE IF items[i] = "Err" THEN Err("ioctl")
    ELSE CountItems(items, i + 1, count + 1)

\* fragmorethan/src/main.rs process_entry: Ok(count), 0 for what is no file
FragmorethanProcessEntry(entry) ==
    IF entry.kind = "file"
    THEN IF entry.opens THEN CountItems(entry.items, 1, 0) ELSE Err("open")
    ELSE Ok(0)

\* fraghist/src/main.rs process_entry: Ok(the counts to add to the histogram)
FraghistProcessEntry(entry) ==
    IF entry.kind = "file"
    THEN IF entry.opens
         THEN LET r == CountItems(entry.items, 1, 0)
              IN  IF r.ok THEN Ok(<< r.value >>) ELSE r
         ELSE Err("open")
    ELSE Ok(<< >>)

\* a comparison that lets the threshold itself through
ExceedsOrEquals(count, threshold) == count >= threshold

\* fragmorethan/src/main.rs:38  count > gt
Exceeds(count, threshold) == count > threshold

\* an error that ends the walk, as `?` would
AfterErrorReturn(j) == Len(walk) + 1

\* the entry the loop takes after one that gave an error: `continue`, or the
\* end of the loop body
AfterError(j) == j + 1

Diagnostic(path, e) == [path |-> path, error |-> e]

\* a tool is started on a directory
Started(t, w, g) ==
    /\ tool = t
    /\ walk = w
    /\ gt = g
    /\ next_entry = 1
    /\ stdout = << >>
    /\ stderr = << >>
    /\ histogram = << >>
    /\ cli_pc = "walking"

CliInit ==
    /\ NoReader(<< >>, FALSE)
    /\ \/ \E w \in Walks : Started("fraghist", w, 0)
       \/ \E w \in Walks, g \in 0..MaxGt : Started("fragmorethan", w, g)

\* one turn of the for loop of fragmorethan's process
FragmorethanEntry ==
    /\ tool = "fragmorethan"
    /\ cli_pc = "walking"
    /\ next_entry <= Len(walk)
    /\ LET entry == walk[next_entry]
           r == FragmorethanProcessEntry(entry)
       IN  IF entry.kind = "walk_err"
           THEN /\ stderr' = Append(stderr, Diagnostic(0, "walk"))
                /\ next_entry' = AfterError(next_entry)
                /\ UNCHANGED stdout
           ELSE IF ~r.ok
           THEN /\ stderr' = Append(stderr, Diagnostic(next_entry, r.error))
                /\ next_entry' = AfterError(next_entry)
                /\ UNCHANGED stdout
           ELSE /\ stdout' = IF Exceeds(r.value, gt)
                             THEN Append(stdout, [path |-> next_entry, count |-> r.value])
                             ELSE stdout
                /\ next_entry' = next_entry + 1
                /\ UNCHANGED stderr
    /\ UNCHANGED << core, tool, walk, gt, histogram, cli_pc >>

\* fragmorethan's process returns at the end of the walk
FragmorethanReturn ==
    /\ tool = "fragmorethan"
    /\ cli_pc = "walking"
    /\ next_entry > Len(walk)
    /\ cli_pc' = "done"
    /\ UNCHANGED << core, tool, walk, gt, next_entry, stdout, stderr, histogram >>

\* one turn of the for loop of fraghist's process
FraghistEntry ==
    /\ tool = "fraghist"
    /\ cli_pc = "walking"
    /\ next_entry <= Len(walk)
    /\ LET entry == walk[next_entry]
           r == FraghistProcessEntry(entry)
       IN  IF entry.kind = "walk_err"
           THEN /\ stderr' = Append(stderr, Diagnostic(0, "walk"))
                /\ next_entry' = AfterError(next_entry)
                /\ UNCHANGED histogram
           ELSE IF ~r.ok
           THEN /\ stderr' = Append(stderr, Diagnostic(next_entry, r.error))
                /\ next_entry' = AfterError(next_entry)
                /\ UNCHANGED histogram
           ELSE /\ histogram' = histogram \o r.value
                /\ next_entry' = next_entry + 1
                /\ UNCHANGED stderr
    /\ UNCHANGED << core, tool, walk, gt, stdout, cli_pc >>

\* fraghist's process prints the histogram at the end of the walk and returns
FraghistPrint ==
    /\ tool = "fraghist"
    /\ cli_pc = "walking"
    /\ next_entry > Len(walk)
    /\ stdout' = Append(stdout, [path |-> 0, histogram |-> histogram])
    /\ cli_pc' = "done"
    /\ UNCHANGED << core, tool, walk, gt, next_entry, stderr, histogram >>

CliNext ==
    \/ FragmorethanEntry
    \/ FragmorethanReturn
    \/ FraghistEntry
    \/ FraghistPrint

CliSpec == CliInit /\ [][CliNext]_vars

\* ================================================================== claims
Queries == Len(log) + intr

IsPrefix(s, t) == Len(s) <= Len(t) /\ \A i \in 1..Len(s) : s[i] = t[i]

OkItems(exts) == [i \in 1..Len(exts) |-> OkItem(exts[i])]

\* every completed query so far succeeded with the file's extents at its start
KernelConformed ==
    \A i \in 1..Len(log) :
        /\ log[i].rc = "ok"
        /\ log[i].n = Len(KernelBatch(file, log[i].start, PAGESIZE))

ErrPositions == { i \in 1..Len(yielded) : yielded[i].kind = "Err" }

\* C1: for a file of more than PAGESIZE extents whose final extent is flagged
\* LAST and a kernel that answers every query with the next up-to-PAGESIZE
\* extents at or after fm_start, the items yielded are Ok records that form a
\* prefix of the extent map (kernel order, nothing duplicated or skipped at a
\* batch boundary), fe_logical never decreases, and when next has returned
\* None the whole extent map has been yielded.
C1_PagedSequenceIsExtentMap ==
    (file \in FlaggedFiles /\ Len(file) > PAGESIZE /\ KernelConformed)
    => /\ IsPrefix(yielded, OkItems(file))
       /\ \A i \in 1..Len(yielded), j \in 1..Len(yielded) :
            i <= j => yielded[i].ext.fe_logical <= yielded[j].ext.fe_logical
       /\ lastRet = "None" => yielded = OkItems(file)

C1_Witness ==
    /\ file \in FlaggedFiles
    /\ Len(file) > 2 * PAGESIZE
    /\ KernelConformed
    /\ Len(log) = 3
    /\ lastRet = "None"
    /\ yielded = OkItems(file)

\* C2: a query that fails with an error other than Interrupted yields one
\* Some(Err): the Err is the final item yielded (no second Err, no Ok after
\* it), it carries the error of the failed query, the reader is exhausted with
\* a drained buffer, so every later pull returns None, and no further query is
\* issued, whatever the file still holds.
C2_FatalErrorEndsSequence ==
    /\ \A i \in ErrPositions : i = Len(yielded)
    /\ \A i \in 1..Len(log) :
         log[i].rc # "ok"
         => /\ i = Len(log)
            /\ yielded # << >>
            /\ yielded[Len(yielded)] = ErrItem(log[i].rc)
            /\ pc \in {"idle", "dropped"}
            /\ ended
            /\ Drained
            /\ lastRet \in {"Err", "None"}

C2_Witness ==
    /\ Len(file) > 2 * PAGESIZE
    /\ Len(yielded) = PAGESIZE + 1
    /\ yielded[PAGESIZE + 1].kind = "Err"
    /\ Len(log) = 2
    /\ lastRet = "None"
    /\ pc = "idle"

\* the items one completed query contributes to the sequence
ItemsOfQuery(q) ==
    IF q.rc = "ok"
    THEN OkItems(Take(KernelBatch(file, q.start, PAGESIZE), q.n))
    ELSE << ErrItem(q.rc) >>

RECURSIVE ItemsOfQueries(_)
\* the items the first n completed queries contribute
ItemsOfQueries(n) ==
    IF n = 0 THEN << >> ELSE ItemsOfQueries(n - 1) \o ItemsOfQuery(log[n])

\* the reader as an ioctl call saw it
Seen(a) == [cur_idx |-> a.cur_idx, size |-> a.size, ended |-> a.ended,
            fm_start |-> a.fm_start, fm_extents |-> a.fm_extents]

\* a step that calls ioctl
IoctlStep == pc = "get_extents" /\ (intr' # intr \/ log' # log)

\* C3: an ioctl that fails with Interrupted is retried inside the same next
\* call: the step yields nothing and returns nothing, it leaves cursor,
\* returned count, exhausted flag and slots as they were, and the ioctl that
\* follows an interrupted one sees the same cursor, count, flag, slots and
\* fm_start.  No Err(Interrupted) is ever yielded, and the items yielded are
\* those of the completed queries alone, so interruptions do not show in the
\* sequence.
C3_InterruptedIsRetried ==
    /\ [](/\ \A i \in ErrPositions : yielded[i].errno # "EINTR"
          /\ IsPrefix(yielded, ItemsOfQueries(Len(log)))
          /\ (pc = "idle" /\ Drained) => yielded = ItemsOfQueries(Len(log)))
    /\ [][/\ (IoctlStep /\ last_attempt.rc = "EINTR")
             => Seen(last_attempt') = Seen(last_attempt)
          /\ intr' # intr
             => /\ pc = "get_extents" /\ pc' = "get_extents"
                /\ UNCHANGED << cur_idx, size, ended, fm_extents, yielded, lastRet,
                                calls, log >>
                /\ fm_start' = last_attempt'.fm_start
                /\ Seen(last_attempt') = [cur_idx |-> cur_idx', size |-> size',
                                          ended |-> ended', fm_start |-> fm_start',
                                          fm_extents |-> fm_extents']
         ]_vars

C3_Witness ==
    /\ file \in FlaggedFiles
    /\ KernelConformed
    /\ Len(log) = 2
    /\ log[1].intr = 0
    /\ log[2].intr = 1
    /\ Len(yielded) = PAGESIZE + 1
    /\ ErrPositions = {}

\* C4: once next has returned None, whether at the end of the extent map, after
\* an empty answer or after an Err item, every later call returns None.
C4_NoneIsFinal == [][lastRet = "None" => lastRet' = "None"]_vars

C4_Witness ==
    /\ lastRet = "None"
    /\ ErrPositions # {}
    /\ calls >= Len(yielded) + 3

\* C5: the reader is the sole owner of the descriptor for both constructors:
\* the descriptor is open and has never been closed while the reader is alive,
\* and it has been closed exactly once when the reader has been dropped.
C5_SoleOwnerOfDescriptor ==
    /\ pc \in {"idle", "get_extents"} => (fd_open /\ fd_closes = 0)
    /\ pc = "dropped" => fd_closes = 1

\* C6: for a file of N extents, 1 <= N < PAGESIZE, whose N-th extent is flagged
\* LAST and a conforming kernel, the items yielded are the kernel's records
\* unchanged and in order, at most one query is ever completed, and when next
\* has returned None exactly the N records have been yielded by one query.
C6_SmallFileOneQuery ==
    (file \in FlaggedFiles /\ Len(file) >= 1 /\ Len(file) < PAGESIZE /\ KernelConformed)
    => /\ IsPrefix(yielded, OkItems(file))
       /\ Len(log) <= 1
       /\ intr = 0 => Queries <= 1
       /\ lastRet = "None" => (yielded = OkItems(file) /\ Len(log) = 1)
       /\ (pc = "idle" /\ Len(yielded) = Len(file)) => (ended /\ Drained)

C6_Witness ==
    /\ file \in FlaggedFiles
    /\ Len(file) = PAGESIZE - 1
    /\ KernelConformed
    /\ yielded = OkItems(file)
    /\ lastRet = "None"
    /\ Queries = 1
    /\ pc = "dropped"

\* C7: when the first query succeeds with no extents mapped, the first pull
\* returns None and the sequence never yields an item, Ok or Err.
C7_EmptyFileYieldsNothing ==
    (Len(log) >= 1 /\ log[1].rc = "ok" /\ log[1].n = 0)
    => /\ yielded = << >>
       /\ lastRet = "None"
       /\ Len(log) = 1

C7_Witness ==
    /\ file = << >>
    /\ calls = 1
    /\ Len(log) = 1
    /\ log[1].rc = "ok"
    /\ lastRet = "None"
    /\ yielded = << >>

C9_ConstructedState ==
    /\ (ctor # "none" /\ calls = 0)
       => /\ pc \in {"idle", "dropped"}
          /\ cur_idx = 0 /\ size = 0 /\ ~ended /\ fm_start = 0
    /\ (Queries > 0 \/ last_attempt # NoAttempt) => calls >= 1
    /\ (calls >= 1 /\ pc \in {"idle", "dropped"}) => Len(log) >= 1

C9_Witness ==
    /\ ctor = "new_from_path"
    /\ pc = "idle"
    /\ calls = 0
    /\ Queries = 0

\* C10: next never panics: in no reachable state has a slot index left the
\* PAGESIZE-slot array or the resume offset overflowed a u64.
C10_NeverPanics == pc # "panicked"


\* the last completed query, and the extents the kernel mapped for it
LastQuery == log[Len(log)]
BatchOf(q) == Take(KernelBatch(file, q.start, PAGESIZE), q.n)

\* the end (fe_logical + fe_length, as a number) of the last extent that the
\* last completed query mapped
EndOfLastMapped ==
    LET b == BatchOf(LastQuery)
    IN  b[Len(b)].fe_logical + b[Len(b)].fe_length

\* C13: the first ioctl, and every retry of it, is called with fm_start = 0;
\* every ioctl after a completed query is called with fm_start equal to
\* fe_logical + fe_length of the last slot that query filled; a step that calls
\* no ioctl leaves fm_start alone.
C13_StartIsEndOfLastSlot ==
    [][/\ IoctlStep
          => last_attempt'.fm_start = (IF Len(log) = 0 THEN 0 ELSE EndOfLastMapped)
       /\ (~IoctlStep /\ pc # "start") => fm_start' = fm_start
      ]_vars

\* the completed successful query the buffer holds, if any: an error can only
\* be the last entry of log
BufferedQuery ==
    IF LastQuery.rc = "ok" THEN LastQuery ELSE log[Len(log) - 1]

\* C14: in every state of a reader 0 <= cur_idx <= size <= PAGESIZE, size is
\* the count the last successful query returned, the first size slots are the
\* extents that query mapped, and the record the last Some(Ok) carried is the
\* slot below the cursor, one of those size slots.
C14_CursorWithinReturnedCount ==
    ctor # "none"
    => /\ 0 <= cur_idx /\ cur_idx <= size /\ size <= PAGESIZE
       /\ size = fm_mapped_extents
       /\ size > 0
          => /\ Len(log) >= 1
             /\ size = BufferedQuery.n
             /\ \A i \in 0..(size - 1) : fm_extents[i] = BatchOf(BufferedQuery)[i + 1]
       /\ lastRet = "Ok"
          => /\ cur_idx >= 1
             /\ yielded[Len(yielded)] = OkItem(fm_extents[cur_idx - 1])

C14_Witness ==
    /\ Len(log) = 3
    /\ LastQuery.rc = "ok"
    /\ size = 1
    /\ cur_idx = 1
    /\ lastRet = "Ok"
    /\ fm_extents[1] # FiemapExtentNew


\* a step that completes an ioctl call, and the condition on its outcome that
\* ends the sequence
QueryCompletes == log' # log
EndsSequence(q) ==
    \/ q.rc # "ok"
    \/ q.n = 0
    \/ Contains(fm_extents'[q.n - 1].fe_flags, LAST)

\* C15: ended turns true exactly in a step that completes a query which failed
\* with an error other than Interrupted, returned no extents, or returned a
\* batch whose last filled slot carries LAST (LAST on another slot does not
\* count); once true it stays true.  A successful query with no extents makes
\* that pull return None with ended set, so the query is not issued again.
C15_EndedExactlyAtEndOfData ==
    [][pc # "start"
       => /\ ended => ended'
          /\ (~ended /\ ended')
             => (QueryCompletes /\ EndsSequence(log'[Len(log')]))
          /\ (QueryCompletes /\ EndsSequence(log'[Len(log')])) => ended'
          /\ (QueryCompletes /\ log'[Len(log')].rc = "ok" /\ log'[Len(log')].n = 0)
             => (lastRet' = "None" /\ pc' = "idle" /\ yielded' = yielded)
      ]_vars

C15_Witness ==
    /\ file \in RegularFiles \ FlaggedFiles
    /\ Len(file) = 2 * PAGESIZE
    /\ Len(log) = 2
    /\ LastQuery.rc = "ok"
    /\ LastQuery.n = 0
    /\ ended
    /\ lastRet = "None"
    /\ calls >= Len(yielded) + 2

\* C16: an ioctl is called only with the buffer drained to the end
\* (cur_idx = size) and ended false, and once ended is true no ioctl is called
\* again, however many pulls follow.
C16_QueryOnlyWhenDrainedAndActive ==
    [][/\ IoctlStep => (cur_idx = size /\ ~ended)
       /\ (pc = "idle" /\ pc' = "get_extents") => (cur_idx = size /\ ~ended)
       /\ ended => (log' = log /\ intr' = intr /\ pc' # "get_extents")
      ]_vars

C16_Witness ==
    /\ Len(log) = 3
    /\ intr = 1
    /\ ended
    /\ lastRet = "None"
    /\ calls >= Len(yielded) + 3

\* the Ok items yielded so far
OkYielded == SelectSeq(yielded, LAMBDA it : it.kind = "Ok")

\* C17: a call to next that finds cur_idx < size returns the slot at cur_idx
\* and moves cur_idx on by one, without an ioctl, whether or not ended is set;
\* so when None is returned every filled slot of the final batch has been
\* yielded, in slot order.
C17_DrainBeforeNone ==
    /\ [][(pc = "idle" /\ cur_idx < size /\ pc' # "dropped")
          => /\ yielded' = Append(yielded, OkItem(fm_extents[cur_idx]))
             /\ cur_idx' = cur_idx + 1
             /\ lastRet' = "Ok"
             /\ pc' = "idle"
             /\ UNCHANGED << size, ended, log, intr, request >>
         ]_vars
    /\ []((lastRet = "None" /\ size > 0)
          => /\ Len(OkYielded) >= size
             /\ \A i \in 0..(size - 1) :
                  OkYielded[Len(OkYielded) - size + 1 + i] = OkItem(fm_extents[i]))

C17_Witness ==
    /\ file \in FlaggedFiles
    /\ Len(file) = PAGESIZE + 3
    /\ ended
    /\ size = 3
    /\ cur_idx = 3
    /\ lastRet = "None"
    /\ Contains(fm_extents[size - 1].fe_flags, LAST)


\* C18: in every state of a reader, and so at every ioctl, fm_length is
\* u64::MAX, fm_extent_count is PAGESIZE and fm_flags is 0, and no step after
\* construction changes them; fm_mapped_extents and the slots change only in
\* a step that completes a successful ioctl (the kernel's copy-out), so
\* fm_start is the one request field the reader writes.
C18_RequestFrame ==
    /\ [](ctor # "none"
          => (fm_length = U64MAX /\ fm_extent_count = PAGESIZE /\ fm_flags = 0))
    /\ [][pc # "start"
          => /\ UNCHANGED << fm_length, fm_extent_count, fm_flags >>
             /\ ~(QueryCompletes /\ log'[Len(log')].rc = "ok")
                => UNCHANGED << fm_mapped_extents, fm_extents >>
             /\ fm_start' # fm_start => IoctlStep
         ]_vars

C18_Witness ==
    /\ Len(log) = 3
    /\ intr = 1
    /\ fm_start > 0
    /\ fm_length = U64MAX
    /\ fm_extent_count = PAGESIZE
    /\ fm_flags = 0
    /\ pc = "dropped"

\* C19: over the completed queries of a reader fm_start never decreases, and
\* of two consecutive successful queries that mapped extents the later has the
\* larger fm_start, whatever 64-bit extents the kernel maps.
C19_StartIncreases ==
    \A i \in 1..Len(log), j \in 1..Len(log) :
        i < j
        => /\ log[i].start <= log[j].start
           /\ (j = i + 1 /\ log[i].rc = "ok" /\ log[j].rc = "ok"
               /\ log[i].n > 0 /\ log[j].n > 0)
              => log[i].start < log[j].start


\* ---------------------------------------------------------------- the tools
\* The entries the loop of process has been through.
Taken == 1..(next_entry - 1)

\* The paths named by the lines of an output stream.
Paths(lines) == { lines[i].path : i \in DOMAIN lines }

\* A regular file whose open fails or whose extent sequence yields an Err.
FailingFile(e) ==
    /\ e.kind = "file"
    /\ \/ ~e.opens
       \/ \E i \in DOMAIN e.items : e.items[i] = "Err"

\* A regular file that opens and whose extent sequence ends without an Err.
Completed(e) ==
    /\ e.kind = "file"
    /\ e.opens
    /\ \A i \in DOMAIN e.items : e.items[i] = "Ok"

\* The number of extents in the sequence of an entry.
NumExtents(e) == Cardinality({ i \in DOMAIN e.items : e.items[i] = "Ok" })

\* C11: in fraghist and in fragmorethan, every regular file taken from the
\* walk whose open fails or whose sequence yields an Err has a diagnostic with
\* its own path on the error stream; the loop goes on after it, so every entry
\* taken after it has had its effect (a count in the histogram, a line for a
\* count above the threshold), and the tool returns only when the whole walk
\* has been taken.
C11_ErrorsAreReportedAndSkipped ==
    /\ \A j \in Taken : FailingFile(walk[j]) => j \in Paths(stderr)
    /\ \A i \in DOMAIN stderr :
          \/ stderr[i].path = 0
          \/ stderr[i].path \in Taken /\ FailingFile(walk[stderr[i].path])
    /\ tool = "fraghist" =>
          Len(histogram) = Cardinality({ j \in Taken : Completed(walk[j]) })
    /\ tool = "fragmorethan" =>
          \A j \in Taken :
             Completed(walk[j]) /\ NumExtents(walk[j]) > gt => j \in Paths(stdout)
    /\ next_entry <= Len(walk) + 1
    /\ cli_pc = "done" => next_entry = Len(walk) + 1

\* fraghist has returned from a walk whose first file yielded an Err after an
\* extent and whose second file was counted.
C11_Witness ==
    /\ tool = "fraghist"
    /\ cli_pc = "done"
    /\ Len(walk) = 2
    /\ walk[1] = OpenedFile(<< "Ok", "Err" >>)
    /\ Completed(walk[2])
    /\ stderr = << Diagnostic(1, "ioctl") >>
    /\ histogram = << 2 >>

====
